---- MODULE Spec2Model ----
(***************************************************************************)
(* Model of the pairwise judging scheduler (src/src/scheduler.rs) and of   *)
(* the rating step it calls (src/src/glicko2/algo.rs).                     *)
(*                                                                         *)
(* Every public operation of SchedulerState is a sequence of steps of one  *)
(* thread; a step ends where the code may block on a lock it does not yet  *)
(* hold.  Guards (RwLock write/read guards, DashMap shard guards) are      *)
(* released where the Rust scope that owns them ends.                      *)
(***************************************************************************)
EXTENDS Integers, Sequences, FiniteSets, TLC

(* ------------------------------ bounds -------------------------------- *)
NumThreads == 2      \* concurrent callers
MaxItems   == 2      \* item ids are 1..MaxItems
MaxSeedN   == 2      \* seed_start(n) is called with n in 0..MaxSeedN
MaxOps     == 5      \* API calls started in one behaviour
MaxJudges  == 1      \* judge ids are 1..MaxJudges
MaxRoundItems == 4   \* the seeder on its own is run over 1..MaxRoundItems items

Threads  == 1..NumThreads
ItemIds  == 1..MaxItems
JudgeIds == 1..MaxJudges
NoThread == 0
NoId     == 0

VARIABLES
    current_state,  \* SchedulerState.current_state : States
    judges,         \* SchedulerState.judges : Vec<Judge> (judge ids)
    items,          \* SchedulerState.items : DashMap id -> Item
    matches,        \* SchedulerState.matches : HashMap id -> MatchPair
    mq,             \* SchedulerState.mq : DoublePriorityQueue id -> priority
    state_lock,     \* writer of current_state's RwLock, or NoThread
    mq_lock,        \* writer of mq's RwLock, or NoThread
    matches_lock,   \* writer of matches' RwLock, or NoThread
    match_lock,     \* per match: writer of the MatchPair's own RwLock
    shard_lock,     \* per DashMap shard: holder of its write guard
    shard_of,       \* DashMap: the shard an item id hashes to
    pc,             \* per thread: position in the operation it runs
    loc,            \* per thread: arguments and locals of that operation
    ret,            \* per thread: what its last finished call returned
    ops,            \* number of API calls started so far
    seedPassed,     \* history: seed_start calls that passed the state check
    seedTrue        \* history: seed_start calls that returned true

vars == <<current_state, judges, items, matches, mq, state_lock, mq_lock,
          matches_lock, match_lock, shard_lock, shard_of, pc, loc, ret, ops,
          seedPassed, seedTrue>>

data  == <<current_state, judges, items, matches, mq>>
locks == <<state_lock, mq_lock, matches_lock, match_lock, shard_lock>>
hist  == <<seedPassed, seedTrue>>

(* ------------------------------ values -------------------------------- *)
\* enum States; the order of the declaration is the order of the phases.
States == <<"NoState", "Init", "Continuous", "End">>

StateRank(s) == CHOOSE i \in 1..Len(States) : States[i] = s

\* The score a freshly created item carries (Glicko-2 scale, mu = 0 is the
\* Glicko-1 rating 1500).  Ratings are kept as integers: the model follows
\* the direction of a rating change, not its magnitude.
NewScore == [mu |-> 0]

\* Item.name: what a caller puts into the records it adds (the tests use
\* "Project 1", "Project 2", ...); location and description are like it.
ItemNames == {"Project 1", "Project 2"}

NewItem(id, name) == [id |-> id, name |-> name, score |-> NewScore]

\* The records add_items may be handed.
Items == {NewItem(id, name) : id \in ItemIds, name \in ItemNames}

\* MatchPair as built by the seeder and by get_continuous_stage.
NewMatch(a, b) ==
    [i1 |-> a, i2 |-> b, visit_count |-> 0, winner |-> "None", judge_id |-> NoId]

\* Locals of a thread that runs no operation.
NoLoc ==
    [n |-> 0, judge |-> NoId, mid |-> NoId, winner |-> "None",
     min_prio |-> 0, pend |-> <<>>, pair |-> <<>>, k |-> 0]

\* Return values: kind is "none", "unit", "bool", "ok" (a match), "err",
\* "panic" (the call aborted by unwinding), "snapshot" or "handle".
Ret(op, kind, b, id, msg) ==
    [op |-> op, kind |-> kind, b |-> b, id |-> id, msg |-> msg]

NoRet == Ret("none", "none", FALSE, NoId, "")

RetBool(op, b)  == Ret(op, "bool", b, NoId, "")
RetUnit(op)     == Ret(op, "unit", FALSE, NoId, "")
RetOk(op, id)   == Ret(op, "ok", FALSE, id, "")
RetErr(op, msg) == Ret(op, "err", FALSE, NoId, msg)
RetPanic(op, msg) == Ret(op, "panic", FALSE, NoId, msg)

(* ------------------------------ helpers ------------------------------- *)
\* All orders of a finite set, as sequences (a shuffled Vec).
Perms(S) ==
    {p \in [1..Cardinality(S) -> S] : \A i, j \in 1..Cardinality(S) :
        p[i] = p[j] => i = j}

\* Sequences over S of length at most n.
SeqUpTo(S, n) == UNION {[1..m -> S] : m \in 0..n}

\* Partitions of the item ids into shards: shard_of[i] is the least id that
\* hashes to the shard of i.
ShardMaps ==
    {f \in [ItemIds -> ItemIds] :
        \A i \in ItemIds : f[i] <= i /\ f[f[i]] = f[i]}

\* The arguments of add_items: a Vec of at most MaxItems records, in which
\* an id may occur more than once.
ItemVecs == SeqUpTo(Items, MaxItems)

\* SchedulerState::new(): empty stores, state NoState, no lock held.  The
\* callers in `callers` may issue operations.
InitWith(callers) ==
    /\ current_state = "NoState"
    /\ judges = <<>>
    /\ items = <<>>
    /\ matches = <<>>
    /\ mq = <<>>
    /\ state_lock = NoThread
    /\ mq_lock = NoThread
    /\ matches_lock = NoThread
    /\ match_lock = <<>>
    /\ shard_lock = [s \in ItemIds |-> NoThread]
    /\ shard_of \in ShardMaps
    /\ pc = [t \in Threads |-> IF t \in callers THEN "idle" ELSE "off"]
    /\ loc = [t \in Threads |-> NoLoc]
    /\ ret = [t \in Threads |-> NoRet]
    /\ ops = 0
    /\ seedPassed = 0
    /\ seedTrue = 0

Init == InitWith(Threads)

\* A single caller: every operation runs to its end before the next starts.
InitSeq == InitWith({1})

(* --------------------------- priority queue --------------------------- *)
\* The least priority held by a non-empty queue.
MinPrio(q) == CHOOSE p \in {q[i] : i \in DOMAIN q} : \A i \in DOMAIN q : p <= q[i]

\* PeekMin that may answer any id of the queue.
PeekAny(q) == DOMAIN q

\* DoublePriorityQueue::peek_min: the ids it may return.  Which of several
\* ids of least priority is returned depends on the heap's layout.
PeekMin(q) == {id \in DOMAIN q : q[id] = MinPrio(q)}

\* DoublePriorityQueue::change_priority_by(id, |i| *i += 1): no effect for
\* an id the queue does not hold.
ChangePriorityBy(q, id) ==
    IF id \in DOMAIN q THEN [q EXCEPT ![id] = @ + 1] ELSE q

(* ------------------------------- seeder ------------------------------- *)
\* RoundPairs without the push of cc[0] that evens out an odd round.
RoundPairsNoPad(cc) ==
    [i \in 1..(Len(cc) \div 2) |-> NewMatch(cc[i], cc[Len(cc) + 1 - i])]

\* RoundPairs that evens out an odd round with a placeholder, not an item.
RoundPairsPadNone(cc) ==
    LET cc2 == IF Len(cc) % 2 # 0 THEN Append(cc, NoId) ELSE cc
    IN  [i \in 1..(Len(cc2) \div 2) |-> NewMatch(cc2[i], cc2[Len(cc2) + 1 - i])]

\* One round of create_initial_matches (lines 90-106) over the shuffled
\* ids cc.
RoundPairs(cc) ==
    LET cc2 == IF Len(cc) % 2 # 0 THEN Append(cc, cc[1]) ELSE cc
    IN  [i \in 1..(Len(cc2) \div 2) |-> NewMatch(cc2[i], cc2[Len(cc2) + 1 - i])]

RECURSIVE ConcatRounds(_, _)
ConcatRounds(shuffles, r) ==
    IF r > Len(shuffles) THEN <<>>
    ELSE RoundPairs(shuffles[r]) \o ConcatRounds(shuffles, r + 1)

\* create_initial_matches(competitors, n); shuffles[r] is the outcome of
\* cc.shuffle(rng) in round r, Len(shuffles) = n.
create_initial_matches(shuffles) == ConcatRounds(shuffles, 1)

\* The seeder on its own: k >= 1 competitors in the item store, nothing
\* else going on.
InitSeeder ==
    /\ \E k \in 1..MaxRoundItems :
         items = [id \in 1..k |-> NewItem(id, "Project 1")]
    /\ current_state = "NoState"
    /\ judges = <<>>
    /\ matches = <<>>
    /\ mq = <<>>
    /\ state_lock = NoThread
    /\ mq_lock = NoThread
    /\ matches_lock = NoThread
    /\ match_lock = <<>>
    /\ shard_lock = [s \in ItemIds |-> NoThread]
    /\ shard_of = [i \in ItemIds |-> i]
    /\ pc = [t \in Threads |-> "off"]
    /\ loc = [t \in Threads |-> NoLoc]
    /\ ret = [t \in Threads |-> NoRet]
    /\ ops = 0
    /\ seedPassed = 0
    /\ seedTrue = 0

\* One call create_initial_matches(competitors, n) over the items, n >= 1:
\* matches becomes the Vec it returns, round after round; loc[1] keeps n
\* and the number of competitors.
SeederRun(n) ==
    /\ ops = 0
    /\ ops' = 1
    /\ \E shuffles \in [1..n -> Perms(DOMAIN items)] :
         matches' = create_initial_matches(shuffles)
    /\ loc' = [loc EXCEPT ![1].n = n, ![1].k = Cardinality(DOMAIN items)]
    /\ UNCHANGED <<current_state, judges, items, mq, locks, shard_of, pc, ret,
                   hist>>

NextSeeder == \E n \in 1..MaxSeedN : SeederRun(n)

SpecSeeder == InitSeeder /\ [][NextSeeder]_vars

\* The matches of round r in the Vec ms that the seeder returned for k
\* competitors (each round has ceil(k/2) matches).
RoundOf(ms, k, r) ==
    LET h == (k + 1) \div 2 IN {ms[i] : i \in ((r - 1) * h + 1)..(r * h)}

\* How many sides of the matches of the set round item id takes.
SidesIn(round, id) ==
    Cardinality({m \in round : m.i1 = id}) + Cardinality({m \in round : m.i2 = id})

\* The id a new MatchPair gets (uuid::Uuid::new_v4: an id not yet in use).
FreshIds(ms, count) ==
    LET base == Cardinality(DOMAIN ms) IN [i \in 1..count |-> base + i]

(* --------------------------- rating update ---------------------------- *)
\* Glicko2::process_matches for one opponent: mu' = mu + phi'^2 * delta
\* with delta = v * g(phi_j) * (s - E), where v, g, phi'^2 > 0 and
\* 0 < E < 1: mu rises for s = 1 and falls for s = 0.  Returns the new
\* value; the receiver is taken by value and is not changed.
process_matches(self, opponent, score) ==
    [self EXCEPT !.mu = IF score = 1 THEN @ + 1 ELSE @ - 1]

(* --------------------------- state machine ---------------------------- *)
\* state_machine_internal_transition that leaves Init one visit later.
state_machine_internal_transition_late(state, q) ==
    IF state = "Init"
    THEN IF DOMAIN q # {}
         THEN IF MinPrio(q) < 2 THEN "Init" ELSE "Continuous"
         ELSE "Init"
    ELSE state

\* The value state_machine_internal_transition stores for a state, given
\* the queue it reads.
state_machine_internal_transition(state, q) ==
    IF state = "Init"
    THEN IF DOMAIN q # {}
         THEN IF MinPrio(q) < 1 THEN "Init" ELSE "Continuous"
         ELSE "Init"
    ELSE state

(* ------------------------------ seed_start ---------------------------- *)
\* SeedRejected that only recognises the seed phase as already started.
SeedRejectedInitOnly(state) == state = "Init"

\* The condition under which seed_start gives up at once (line 232).
SeedRejected(state) == state # "NoState"

Started(t) ==
    /\ pc[t] = "idle"
    /\ ops < MaxOps
    /\ ops' = ops + 1

Return(t, r) ==
    /\ pc' = [pc EXCEPT ![t] = "idle"]
    /\ loc' = [loc EXCEPT ![t] = NoLoc]
    /\ ret' = [ret EXCEPT ![t] = r]

Goto(t, label, l) ==
    /\ pc' = [pc EXCEPT ![t] = label]
    /\ loc' = [loc EXCEPT ![t] = l]
    /\ ret' = [ret EXCEPT ![t] = NoRet]

\* seed_start, lines 232-237: get_state() (a read guard taken and dropped),
\* the early return, then the wait for the matches lock.
SeedCheck(t, n) ==
    /\ Started(t)
    /\ state_lock = NoThread
    /\ IF SeedRejected(current_state)
       THEN /\ Return(t, RetBool("seed_start", FALSE))
            /\ UNCHANGED seedPassed
       ELSE /\ Goto(t, "seed_matches", [NoLoc EXCEPT !.n = n])
            /\ seedPassed' = seedPassed + 1
    /\ UNCHANGED <<data, locks, shard_of, seedTrue>>

\* line 237: matches_binding.write()
SeedLockMatches(t) ==
    /\ pc[t] = "seed_matches"
    /\ matches_lock = NoThread
    /\ matches_lock' = t
    /\ pc' = [pc EXCEPT ![t] = "seed_mq"]
    /\ UNCHANGED <<data, state_lock, mq_lock, match_lock, shard_lock,
                   shard_of, loc, ret, ops, hist>>

\* lines 240-248: pq_binding.write(), get_items(), create_initial_matches
\* and the loop that pushes every starter match into the queue and the
\* store.  get_items() cannot block here: a shard guard is only ever held
\* by a judge_match that holds the matches lock.
SeedPopulate(t) ==
    /\ pc[t] = "seed_mq"
    /\ mq_lock = NoThread
    /\ mq_lock' = t
    /\ \E shuffles \in [1..loc[t].n -> Perms(DOMAIN items)] :
         LET new == create_initial_matches(shuffles)
             ids == FreshIds(matches, Len(new))
         IN  /\ matches' = matches @@ [id \in {ids[i] : i \in 1..Len(new)}
                                        |-> new[id - Cardinality(DOMAIN matches)]]
             /\ mq' = mq @@ [id \in {ids[i] : i \in 1..Len(new)}
                              |-> new[id - Cardinality(DOMAIN matches)].visit_count]
             /\ match_lock' = match_lock @@
                              [id \in {ids[i] : i \in 1..Len(new)} |-> NoThread]
    /\ pc' = [pc EXCEPT ![t] = "seed_state"]
    /\ loc' = [loc EXCEPT ![t].k = Cardinality(DOMAIN items)]
    /\ UNCHANGED <<current_state, judges, items, state_lock, matches_lock,
                   shard_lock, shard_of, ret, ops, hist>>

\* lines 250-254: the state write guard, *old_state = Init, return true;
\* all three guards are dropped at the end of the function.
SeedCommit(t) ==
    /\ pc[t] = "seed_state"
    /\ state_lock = NoThread
    /\ current_state' = "Init"
    /\ matches_lock' = NoThread
    /\ mq_lock' = NoThread
    /\ Return(t, RetBool("seed_start", TRUE))
    /\ seedTrue' = seedTrue + 1
    /\ UNCHANGED <<judges, items, matches, mq, state_lock, match_lock,
                   shard_lock, shard_of, ops, seedPassed>>

(* ------------------------ give_judge_next_match ----------------------- *)
\* get_from_queue(min_prio), lines 290-303, once both guards are held and
\* peek_min has answered best (NoId for an empty queue).
get_from_queue(q, ms, min_prio, best) ==
    IF best # NoId
    THEN IF min_prio < q[best]
         THEN [kind |-> "none", id |-> NoId, msg |-> ""]
         ELSE IF best \in DOMAIN ms
              THEN [kind |-> "ok", id |-> best, msg |-> ""]
              ELSE [kind |-> "err", id |-> NoId, msg |-> "Match key not found"]
    ELSE [kind |-> "err", id |-> NoId, msg |-> "Could not peek queue"]

\* items.choose_multiple(rng, 2) followed by choices[0], choices[1]: the
\* ordered pairs the two indexings can yield; none when fewer than two
\* items exist (the indexing is then out of bounds).
ChoosePairs(its) ==
    {pr \in (DOMAIN its) \X (DOMAIN its) : pr[1] # pr[2]}

\* ServeMatch without the assignment of judge_id.
ServeMatchKeepsJudge(m, judge) == [m EXCEPT !.visit_count = @ + 1]

\* lines 343-349: what give_judge_next_match writes into the match.
ServeMatch(m, judge) ==
    [m EXCEPT !.judge_id = judge, !.visit_count = @ + 1]

\* line 339, state_machine_internal_transition: the state write guard and
\* the match on *state.  Only the Init arm goes on to read the queue.
GiveTransition(t, j) ==
    /\ Started(t)
    /\ state_lock = NoThread
    /\ IF current_state = "Init"
       THEN /\ state_lock' = t
            /\ Goto(t, "give_trans_mq", [NoLoc EXCEPT !.judge = j])
       ELSE /\ state_lock' = state_lock
            /\ Goto(t, "give_find", [NoLoc EXCEPT !.judge = j])
    /\ UNCHANGED <<data, mq_lock, matches_lock, match_lock, shard_lock,
                   shard_of, hist>>

\* lines 208-220: self.mq.read(), peek_min, the store into *state; both
\* guards end with the function.
GiveTransitionMq(t) ==
    /\ pc[t] = "give_trans_mq"
    /\ mq_lock = NoThread
    /\ current_state' = state_machine_internal_transition(current_state, mq)
    /\ state_lock' = NoThread
    /\ pc' = [pc EXCEPT ![t] = "give_find"]
    /\ UNCHANGED <<judges, items, matches, mq, mq_lock, matches_lock,
                   match_lock, shard_lock, shard_of, loc, ret, ops, hist>>

\* find_next_match that looks into the queue in NoState as it does in Init.
find_next_match_from_none(state) ==
    CASE state = "End" ->
           [kind |-> "err", min_prio |-> 0,
            msg |-> "Cannot get next match while in END state"]
      [] state = "Continuous" -> [kind |-> "queue", min_prio |-> 1, msg |-> ""]
      [] OTHER -> [kind |-> "queue", min_prio |-> 0, msg |-> ""]

\* The match of find_next_match, lines 271-280: an error at once, or the
\* look into the queue with the least priority it accepts there.
find_next_match(state) ==
    CASE state = "NoState" ->
           [kind |-> "err", min_prio |-> 0,
            msg |-> "Cannot get next match while in NONE state"]
      [] state = "End" ->
           [kind |-> "err", min_prio |-> 0,
            msg |-> "Cannot get next match while in END state"]
      [] state = "Init" -> [kind |-> "queue", min_prio |-> 0, msg |-> ""]
      [] state = "Continuous" -> [kind |-> "queue", min_prio |-> 1, msg |-> ""]

\* find_next_match, lines 270-280: get_state() and the dispatch.
GiveFind(t) ==
    /\ pc[t] = "give_find"
    /\ state_lock = NoThread
    /\ LET d == find_next_match(current_state)
       IN  IF d.kind = "err"
           THEN Return(t, RetErr("give", d.msg))
           ELSE /\ pc' = [pc EXCEPT ![t] = "queue_mq"]
                /\ loc' = [loc EXCEPT ![t].min_prio = d.min_prio]
                /\ UNCHANGED ret
    /\ UNCHANGED <<data, locks, shard_of, ops, hist>>

\* get_from_queue, line 287: self.mq.write()
QueueLockMq(t) ==
    /\ pc[t] = "queue_mq"
    /\ mq_lock = NoThread
    /\ mq_lock' = t
    /\ pc' = [pc EXCEPT ![t] = "queue_matches"]
    /\ UNCHANGED <<data, state_lock, matches_lock, match_lock, shard_lock,
                   shard_of, loc, ret, ops, hist>>

\* get_from_queue, lines 289-303, and what its caller does with the
\* answer: find_next_match unwraps it in Init (line 275, a panic on None),
\* get_continuous_stage returns it only when it is Some(Ok) (line 307).
QueuePeek(t) ==
    /\ pc[t] = "queue_matches"
    /\ matches_lock = NoThread
    /\ mq_lock' = NoThread
    /\ \E best \in (IF DOMAIN mq = {} THEN {NoId} ELSE PeekMin(mq)) :
         LET r == get_from_queue(mq, matches, loc[t].min_prio, best)
         IN  IF r.kind = "ok"
             THEN /\ pc' = [pc EXCEPT ![t] = "give_match_lock"]
                  /\ loc' = [loc EXCEPT ![t].mid = r.id]
                  /\ UNCHANGED ret
             ELSE IF loc[t].min_prio = 1
             THEN /\ pc' = [pc EXCEPT ![t] = "cont_items"]
                  /\ UNCHANGED <<loc, ret>>
             ELSE IF r.kind = "none"
             THEN Return(t, RetPanic("give", "unwrap on None"))
             ELSE Return(t, RetErr("give", r.msg))
    /\ UNCHANGED <<data, state_lock, matches_lock, match_lock, shard_lock,
                   shard_of, ops, hist>>

\* get_continuous_stage, lines 311-325: get_items() (it reads every shard,
\* so it waits while any shard guard is held), choose_multiple and the
\* indexing of choices, which panics when fewer than two items exist.
ContChoose(t) ==
    /\ pc[t] = "cont_items"
    /\ \A s \in ItemIds : shard_lock[s] = NoThread
    /\ IF ChoosePairs(items) = {}
       THEN Return(t, RetPanic("give", "index out of bounds"))
       ELSE /\ \E pr \in ChoosePairs(items) :
                 loc' = [loc EXCEPT ![t].pair = pr]
            /\ pc' = [pc EXCEPT ![t] = "cont_insert"]
            /\ UNCHANGED ret
    /\ UNCHANGED <<data, locks, shard_of, ops, hist>>

\* get_continuous_stage, lines 327-332: the matches write guard and the
\* insert into the store; the queue is not touched.
ContInsert(t) ==
    /\ pc[t] = "cont_insert"
    /\ matches_lock = NoThread
    /\ LET id == FreshIds(matches, 1)[1]
       IN  /\ matches' = matches @@ (id :> NewMatch(loc[t].pair[1], loc[t].pair[2]))
           /\ match_lock' = match_lock @@ (id :> NoThread)
           /\ loc' = [loc EXCEPT ![t].mid = id]
    /\ pc' = [pc EXCEPT ![t] = "give_match_lock"]
    /\ UNCHANGED <<current_state, judges, items, mq, state_lock, mq_lock,
                   matches_lock, shard_lock, shard_of, ret, ops, hist>>

\* line 343: m_lock.write()
GiveLockMatch(t) ==
    /\ pc[t] = "give_match_lock"
    /\ match_lock[loc[t].mid] = NoThread
    /\ match_lock' = [match_lock EXCEPT ![loc[t].mid] = t]
    /\ pc' = [pc EXCEPT ![t] = "give_bump"]
    /\ UNCHANGED <<data, state_lock, mq_lock, matches_lock, shard_lock,
                   shard_of, loc, ret, ops, hist>>

\* lines 345-349: self.mq.write(), change_priority_by, judge_id and
\* visit_count; both guards end with the match arm.
GiveBump(t) ==
    /\ pc[t] = "give_bump"
    /\ mq_lock = NoThread
    /\ mq' = ChangePriorityBy(mq, loc[t].mid)
    /\ matches' = [matches EXCEPT ![loc[t].mid] = ServeMatch(@, loc[t].judge)]
    /\ match_lock' = [match_lock EXCEPT ![loc[t].mid] = NoThread]
    /\ Return(t, RetOk("give", loc[t].mid))
    /\ UNCHANGED <<current_state, judges, items, state_lock, mq_lock,
                   matches_lock, shard_lock, shard_of, ops, hist>>

(* ------------------------------ judge_match --------------------------- *)
\* JudgeLookup that answers true for an id the store does not hold.
JudgeLookupMissingTrue(t, j, mid, w) ==
    /\ Started(t)
    /\ matches_lock = NoThread
    /\ IF mid \in DOMAIN matches
       THEN /\ matches_lock' = t
            /\ Goto(t, "judge_match_lock",
                    [NoLoc EXCEPT !.judge = j, !.mid = mid, !.winner = w])
       ELSE /\ matches_lock' = matches_lock
            /\ Return(t, RetBool("judge_match", TRUE))
    /\ UNCHANGED <<data, state_lock, mq_lock, match_lock, shard_lock,
                   shard_of, hist>>

\* lines 141-144: the matches write guard and the lookup; false for an id
\* the store does not hold.
JudgeLookup(t, j, mid, w) ==
    /\ Started(t)
    /\ matches_lock = NoThread
    /\ IF mid \in DOMAIN matches
       THEN /\ matches_lock' = t
            /\ Goto(t, "judge_match_lock",
                    [NoLoc EXCEPT !.judge = j, !.mid = mid, !.winner = w])
       ELSE /\ matches_lock' = matches_lock
            /\ Return(t, RetBool("judge_match", FALSE))
    /\ UNCHANGED <<data, state_lock, mq_lock, match_lock, shard_lock,
                   shard_of, hist>>

\* SetWinner that also starts the match's visits afresh.
SetWinnerResetsVisits(m, w) == [m EXCEPT !.winner = w, !.visit_count = 0]

\* line 146: match_pair.winner = Some(winner).
SetWinner(m, w) == [m EXCEPT !.winner = w]

\* lines 145-151: match_pair_guard.write(), the winner, and
\* items.get_mut(i1), which takes the write guard of i1's shard (free
\* here: only a judge_match holding the matches lock takes shard guards
\* across a step).
JudgeLockMatch(t) ==
    /\ pc[t] = "judge_match_lock"
    /\ match_lock[loc[t].mid] = NoThread
    /\ match_lock' = [match_lock EXCEPT ![loc[t].mid] = t]
    /\ matches' = [matches EXCEPT ![loc[t].mid] = SetWinner(@, loc[t].winner)]
    /\ shard_lock' = [shard_lock EXCEPT ![shard_of[matches[loc[t].mid].i1]] = t]
    /\ pc' = [pc EXCEPT ![t] = "judge_s2"]
    /\ UNCHANGED <<current_state, judges, items, mq, state_lock, mq_lock,
                   matches_lock, shard_of, loc, ret, ops, hist>>

\* The item store judge_match leaves behind (lines 154-171): the two
\* process_matches calls take copies of the scores and their results are
\* dropped, so neither entry is written.
JudgeScores(its, m, w) ==
    LET s1_im == its[m.i1].score
        s2_im == its[m.i2].score
        r1 == process_matches(its[m.i1].score, s2_im, IF w = "A" THEN 1 ELSE 0)
        r2 == process_matches(its[m.i2].score, s1_im, IF w = "A" THEN 0 ELSE 1)
    IN  its

\* lines 152-171: items.get_mut(i2), which waits for the write guard of
\* i2's shard (for ever when this thread holds it already), the rating
\* step and the return; every guard ends with the function.
JudgeUpdate(t) ==
    /\ pc[t] = "judge_s2"
    /\ shard_lock[shard_of[matches[loc[t].mid].i2]] = NoThread
    /\ items' = JudgeScores(items, matches[loc[t].mid], loc[t].winner)
    /\ shard_lock' = [s \in ItemIds |-> NoThread]
    /\ match_lock' = [match_lock EXCEPT ![loc[t].mid] = NoThread]
    /\ matches_lock' = NoThread
    /\ Return(t, RetBool("judge_match", TRUE))
    /\ UNCHANGED <<current_state, judges, matches, mq, state_lock, mq_lock,
                   shard_of, ops, hist>>

(* ------------------------- add_items, add_judges ----------------------- *)
\* DashMap::insert without the replacement of a record already stored.
InsertItemKeepsOld(its, i) ==
    IF i.id \in DOMAIN its THEN its ELSE its @@ (i.id :> i)

\* DashMap::insert(i.id, i): the record stored under the id is i, whether
\* or not the id was there before.
InsertItem(its, i) ==
    [id \in DOMAIN its \cup {i.id} |-> IF id = i.id THEN i ELSE its[id]]

\* One turn of the loop of add_items (line 260): items.insert takes the
\* write guard of the item's shard for the insert.
InsertHead(t, pend) ==
    /\ shard_lock[shard_of[Head(pend).id]] = NoThread
    /\ items' = InsertItem(items, Head(pend))
    /\ IF Tail(pend) = <<>>
       THEN Return(t, RetUnit("add_items"))
       ELSE Goto(t, "add_insert", [NoLoc EXCEPT !.pend = Tail(pend)])

\* add_items(new_items): the call and its first insert.
AddItems(t, new_items) ==
    /\ Started(t)
    /\ IF new_items = <<>>
       THEN /\ Return(t, RetUnit("add_items"))
            /\ UNCHANGED items
       ELSE InsertHead(t, new_items)
    /\ UNCHANGED <<current_state, judges, matches, mq, locks, shard_of, hist>>

\* add_items: a later turn of the loop.
AddInsert(t) ==
    /\ pc[t] = "add_insert"
    /\ InsertHead(t, loc[t].pend)
    /\ UNCHANGED <<current_state, judges, matches, mq, locks, shard_of, ops,
                   hist>>

\* add_judges, lines 265-266: the judges write guard and the append; no
\* other lock is held with it, so the guard is never seen held.
AddJudges(t, new_judges) ==
    /\ Started(t)
    /\ Len(judges) + Len(new_judges) <= MaxJudges
    /\ judges' = judges \o new_judges
    /\ Return(t, RetUnit("add_judges"))
    /\ UNCHANGED <<current_state, items, matches, mq, locks, shard_of, hist>>

(* ------------------------------- readers ------------------------------ *)
\* A call that only reads: it returns once the lock it reads under is free.
\* What it hands back is a copy ("snapshot") or the shared object itself
\* ("handle").
Reader(t, op, kind, free) ==
    /\ Started(t)
    /\ free
    /\ Return(t, Ret(op, kind, FALSE, NoId, ""))
    /\ UNCHANGED <<data, locks, shard_of, hist>>

\* get_items, lines 192-199: a copy of every item, read shard by shard.
GetItems(t) ==
    Reader(t, "get_items", "snapshot", \A s \in ItemIds : shard_lock[s] = NoThread)

\* get_judges, lines 183-190: a copy of the judges under the read guard
\* (the judges lock is never held across a step).
GetJudges(t) == Reader(t, "get_judges", "snapshot", TRUE)

\* get_state, lines 177-181: a copy of the state under the read guard.
GetState(t) == Reader(t, "get_state", "snapshot", state_lock = NoThread)

\* get_matches, lines 227-229: a clone of the Arc, no lock taken; the caller
\* gets the store itself.
GetMatches(t) == Reader(t, "get_matches", "handle", TRUE)

\* What a caller reads through the Arc<RwLock<MatchPair>> that
\* give_judge_next_match handed it (line 349, Ok(m_lock.clone())): the
\* stored match itself.
Seen(t) == matches[ret[t].id]

(* ------------------------------ the system ---------------------------- *)
Next ==
    \/ \E t \in Threads, n \in 0..MaxSeedN : SeedCheck(t, n)
    \/ \E t \in Threads : SeedLockMatches(t)
    \/ \E t \in Threads : SeedPopulate(t)
    \/ \E t \in Threads : SeedCommit(t)
    \/ \E t \in Threads, j \in JudgeIds : GiveTransition(t, j)
    \/ \E t \in Threads : GiveTransitionMq(t)
    \/ \E t \in Threads : GiveFind(t)
    \/ \E t \in Threads : QueueLockMq(t)
    \/ \E t \in Threads : QueuePeek(t)
    \/ \E t \in Threads : ContChoose(t)
    \/ \E t \in Threads : ContInsert(t)
    \/ \E t \in Threads : GiveLockMatch(t)
    \/ \E t \in Threads : GiveBump(t)
    \/ \E t \in Threads, j \in JudgeIds, w \in {"A", "B"},
          mid \in DOMAIN matches \cup {NoId} : JudgeLookup(t, j, mid, w)
    \/ \E t \in Threads : JudgeLockMatch(t)
    \/ \E t \in Threads : JudgeUpdate(t)
    \/ \E t \in Threads, new_items \in ItemVecs :
          AddItems(t, new_items)
    \/ \E t \in Threads : AddInsert(t)
    \/ \E t \in Threads, new_judges \in SeqUpTo(JudgeIds, MaxJudges) :
          AddJudges(t, new_judges)
    \/ \E t \in Threads : GetItems(t)
    \/ \E t \in Threads : GetJudges(t)
    \/ \E t \in Threads : GetState(t)
    \/ \E t \in Threads : GetMatches(t)

Spec == Init /\ [][Next]_vars

\* The same operations issued by one caller only.
SpecSeq == InitSeq /\ [][Next]_vars

(* ----------------------------- wait-for graph ------------------------- *)
\* The threads holding the lock thread t needs for its next step.
Blockers(t) ==
    LET held(l) == IF l = NoThread THEN {} ELSE {l}
    IN  CASE pc[t] \in {"give_trans_mq", "queue_mq", "give_bump", "seed_mq"} ->
               held(mq_lock)
          [] pc[t] \in {"queue_matches", "cont_insert", "seed_matches"} ->
               held(matches_lock)
          [] pc[t] \in {"give_find", "seed_state"} -> held(state_lock)
          [] pc[t] \in {"give_match_lock", "judge_match_lock"} ->
               held(match_lock[loc[t].mid])
          [] pc[t] = "judge_s2" ->
               held(shard_lock[shard_of[matches[loc[t].mid].i2]])
          [] pc[t] = "add_insert" ->
               held(shard_lock[shard_of[Head(loc[t].pend).id]])
          [] pc[t] = "cont_items" ->
               UNION {held(shard_lock[s]) : s \in ItemIds}
          [] OTHER -> {}

\* The place of each lock in the documented order state -> priority queue
\* -> match store -> item store -> judges; a match's own RwLock belongs to
\* the match store, a DashMap shard guard to the item store.
LockRank ==
    [state |-> 1, mq |-> 2, matches |-> 3, match |-> 3, shard |-> 4, judges |-> 5]

\* The ranks of the locks thread t holds.
HeldRanks(t) ==
    (IF state_lock = t THEN {LockRank.state} ELSE {})
    \cup (IF mq_lock = t THEN {LockRank.mq} ELSE {})
    \cup (IF matches_lock = t THEN {LockRank.matches} ELSE {})
    \cup (IF \E id \in DOMAIN match_lock : match_lock[id] = t
          THEN {LockRank.match} ELSE {})
    \cup (IF \E s \in ItemIds : shard_lock[s] = t THEN {LockRank.shard} ELSE {})

\* The ranks of the lock thread t requests in its next step (none when it
\* runs no operation).
WantedRanks(t) ==
    CASE pc[t] \in {"give_trans_mq", "queue_mq", "give_bump", "seed_mq"} ->
           {LockRank.mq}
      [] pc[t] \in {"queue_matches", "cont_insert", "seed_matches"} ->
           {LockRank.matches}
      [] pc[t] \in {"give_find", "seed_state"} -> {LockRank.state}
      [] pc[t] \in {"give_match_lock", "judge_match_lock"} -> {LockRank.match}
      [] pc[t] \in {"judge_s2", "add_insert", "cont_items"} -> {LockRank.shard}
      [] OTHER -> {}

\* A set of threads each of which waits for a lock held inside the set.
Deadlocked(S) == S # {} /\ \A t \in S : Blockers(t) # {} /\ Blockers(t) \subseteq S

GivePcs == {"give_trans_mq", "give_find", "queue_mq", "queue_matches",
            "cont_items", "cont_insert", "give_match_lock", "give_bump"}

\* Thread t takes a step of give_judge_next_match.
GiveStep(t) ==
    /\ pc'[t] # pc[t]
    /\ \/ pc[t] \in GivePcs
       \/ pc[t] = "idle" /\ pc'[t] \in GivePcs

(* ------------------------------- claims ------------------------------- *)
\* C1: in every reachable state every match of the store has one queue
\* entry with its id, and that entry's priority is the match's visit_count.
C1_QueueMirrorsStore ==
    \A id \in DOMAIN matches :
        id \in DOMAIN mq /\ mq[id] = matches[id].visit_count

\* C2: a seed_start(n) that is the only one to pass the state check, with
\* k items in the store, returns true, sets the state to Init and leaves
\* store and queue holding exactly n * ceil(k/2) matches, all with
\* visit_count 0 (priority 0), no winner and no judge_id.
C2_SeedStartPopulates ==
    [][\A t \in Threads :
         (pc[t] = "seed_state" /\ pc'[t] = "idle" /\ seedPassed = 1) =>
            /\ ret'[t] = RetBool("seed_start", TRUE)
            /\ current_state' = "Init"
            /\ Cardinality(DOMAIN matches') = loc[t].n * ((loc[t].k + 1) \div 2)
            /\ DOMAIN mq' = DOMAIN matches'
            /\ \A id \in DOMAIN matches' :
                 /\ matches'[id].visit_count = 0
                 /\ mq'[id] = 0
                 /\ matches'[id].winner = "None"
                 /\ matches'[id].judge_id = NoId]_vars

\* C2 witness: a lone seed_start(2) over one item (odd k) has returned true.
C2_Witness ==
    \E t \in Threads :
        /\ ret[t] = RetBool("seed_start", TRUE)
        /\ seedPassed = 1
        /\ Cardinality(DOMAIN items) = 1
        /\ Cardinality(DOMAIN matches) = 2

\* C3: a seed_start issued in a state other than NoState returns false and
\* leaves phase, match store, queue, item store and judges as they were.
C3_SeedStartRejected ==
    [][\A t \in Threads, n \in 0..MaxSeedN :
         (SeedCheck(t, n) /\ current_state # "NoState") =>
            /\ pc'[t] = "idle"
            /\ ret'[t] = RetBool("seed_start", FALSE)
            /\ UNCHANGED <<current_state, matches, mq, items, judges>>]_vars

\* C3 witness: a seed_start was turned down in the Continuous phase.
C3_Witness ==
    \E t \in Threads :
        /\ ret[t] = RetBool("seed_start", FALSE)
        /\ current_state = "Continuous"
        /\ DOMAIN matches # {}

\* C4: at most one seed_start ever returns true.
C4_OneSeedStartSucceeds == seedTrue <= 1

\* C5: the phase never moves backward in None, Init, Continuous, End.
C5_PhaseNeverBackward ==
    [][StateRank(current_state') >= StateRank(current_state)]_vars

\* C6: no set of callers is ever stuck, each waiting for a lock that only
\* a member of the set can release.
C6_NoDeadlock == \A S \in SUBSET Threads : ~Deadlocked(S)

\* C7: give_judge_next_match returns a match or an error; it never aborts.
C7_GiveNeverAborts ==
    \A t \in Threads : ~(ret[t].op = "give" /\ ret[t].kind = "panic")

\* C8: a successful give_judge_next_match(judge) raises the visit_count of
\* the match it returns by exactly 1 and sets its judge_id to the judge; no
\* step of the call changes another match already in the store.
C8_GiveServesOnce ==
    [][\A t \in Threads :
         /\ (pc[t] = "give_bump" /\ pc'[t] = "idle") =>
               /\ ret'[t] = RetOk("give", loc[t].mid)
               /\ matches'[loc[t].mid].visit_count =
                     matches[loc[t].mid].visit_count + 1
               /\ matches'[loc[t].mid].judge_id = loc[t].judge
         /\ GiveStep(t) =>
               /\ ret'[t].kind = "ok" => pc[t] = "give_bump"
               /\ \A id \in DOMAIN matches :
                    (pc[t] = "give_bump" => id # loc[t].mid) =>
                       /\ id \in DOMAIN matches'
                       /\ matches'[id] = matches[id]]_vars

\* C8 witness: a call has returned a match of visit_count 2 (served twice)
\* that carries the caller's judge id while another match is in the store.
C8_Witness ==
    \E t \in Threads :
        /\ ret[t].kind = "ok"
        /\ matches[ret[t].id].visit_count = 2
        /\ matches[ret[t].id].judge_id \in JudgeIds
        /\ Cardinality(DOMAIN matches) >= 2

\* C9: a queued match is never handed out at visit_count >= 1 while another
\* queued match is at 0, and never at visit_count >= 2.
C9_StrictMinimumServed ==
    [][\A t \in Threads :
         (pc[t] = "give_bump" /\ pc'[t] = "idle" /\ loc[t].mid \in DOMAIN mq) =>
            /\ ~ /\ matches[loc[t].mid].visit_count >= 1
                 /\ \E o \in DOMAIN mq : matches[o].visit_count = 0
            /\ matches[loc[t].mid].visit_count < 2]_vars

\* C10: when judge_match returns true for a match of two distinct items,
\* the winner's rating in the item store is higher and the loser's lower
\* than before.
C10_JudgmentMovesRatings ==
    [][\A t \in Threads :
         ( /\ pc[t] = "judge_s2"
           /\ pc'[t] = "idle"
           /\ matches[loc[t].mid].i1 # matches[loc[t].mid].i2 ) =>
            LET m == matches[loc[t].mid]
                won  == IF loc[t].winner = "A" THEN m.i1 ELSE m.i2
                lost == IF loc[t].winner = "A" THEN m.i2 ELSE m.i1
            IN  /\ ret'[t] = RetBool("judge_match", TRUE)
                /\ items'[won].score.mu > items[won].score.mu
                /\ items'[lost].score.mu < items[lost].score.mu]_vars

\* Thread t takes a step of a judge_match that found its match.
JudgeStep(t) ==
    /\ pc'[t] # pc[t]
    /\ \/ pc[t] \in {"judge_match_lock", "judge_s2"}
       \/ pc[t] = "idle" /\ pc'[t] = "judge_match_lock"

\* C11: judge_match with a match id the store does not hold returns false
\* and changes no match, no item, no queue entry, no judge and not the
\* phase.
C11_JudgeUnknownMatch ==
    [][\A t \in Threads, j \in JudgeIds, w \in {"A", "B"} :
         (JudgeLookup(t, j, NoId, w) /\ NoId \notin DOMAIN matches) =>
            /\ pc'[t] = "idle"
            /\ ret'[t] = RetBool("judge_match", FALSE)
            /\ UNCHANGED <<current_state, matches, mq, items, judges>>]_vars

\* C11 witness: judge_match has returned false while the store holds a
\* match that was served to a judge.
C11_Witness ==
    \E t \in Threads :
        /\ ret[t] = RetBool("judge_match", FALSE)
        /\ \E id \in DOMAIN matches : matches[id].visit_count >= 1
        /\ DOMAIN items # {}

\* C12: no step of a judge_match on a stored match changes the set of
\* stored matches, any match's visit_count or judge_id, any other match's
\* winner, the queue or the phase; from its write of the winner until it
\* returns true, the match's winner is the submitted one.
C12_JudgeSetsWinnerOnly ==
    [][\A t \in Threads :
         JudgeStep(t) =>
            /\ DOMAIN matches' = DOMAIN matches
            /\ \A id \in DOMAIN matches :
                 /\ matches'[id].visit_count = matches[id].visit_count
                 /\ matches'[id].judge_id = matches[id].judge_id
                 /\ matches'[id].i1 = matches[id].i1
                 /\ matches'[id].i2 = matches[id].i2
                 /\ id # loc'[t].mid /\ id # loc[t].mid =>
                       matches'[id].winner = matches[id].winner
            /\ mq' = mq
            /\ current_state' = current_state
            /\ pc[t] \in {"judge_match_lock", "judge_s2"} =>
                  matches'[loc[t].mid].winner = loc[t].winner
            /\ pc'[t] = "idle" => ret'[t] = RetBool("judge_match", TRUE)]_vars

\* C12 witness: both callers have had true from judge_match for the one
\* match of the store (the later call overwrote the earlier winner), which
\* had been served to a judge and keeps its visit_count and judge_id.
C12_Witness ==
    /\ \A t \in Threads : ret[t] = RetBool("judge_match", TRUE)
    /\ Cardinality(DOMAIN matches) = 1
    /\ \A id \in DOMAIN matches :
         /\ matches[id].winner # "None"
         /\ matches[id].visit_count = 1
         /\ matches[id].judge_id # NoId

\* C13: in every reachable state the two items of every stored match
\* differ.
C13_NoSelfMatch ==
    \A id \in DOMAIN matches : matches[id].i1 # matches[id].i2

\* C14: the Continuous-phase selector never aborts on the item store it
\* finds, and every match it has synthesized (a stored match that never
\* entered the queue) pairs two distinct ids of the item store.
C14_ContinuousPairsDistinct ==
    /\ \A t \in Threads : ret[t] # RetPanic("give", "index out of bounds")
    /\ \A id \in DOMAIN matches \ DOMAIN mq :
         /\ matches[id].i1 # matches[id].i2
         /\ {matches[id].i1, matches[id].i2} \subseteq DOMAIN items

\* C15: in every reachable state both items of every stored match are in
\* the item store and every id in the queue is in the match store; no
\* give_judge_next_match has answered "Match key not found".
C15_ReferencesResolve ==
    /\ \A id \in DOMAIN matches :
         {matches[id].i1, matches[id].i2} \subseteq DOMAIN items
    /\ DOMAIN mq \subseteq DOMAIN matches
    /\ \A t \in Threads : ret[t].msg # "Match key not found"

\* C15 witness: a give_judge_next_match has returned a match while the
\* store holds queued matches and a synthesized one.
C15_Witness ==
    \E t \in Threads :
        /\ ret[t].kind = "ok"
        /\ DOMAIN mq # {}
        /\ DOMAIN matches \ DOMAIN mq # {}

\* C16: a give_judge_next_match that finds the state NoState or End
\* returns the error of that state, and neither of its two steps changes
\* the phase, a match, the queue, an item or a judge.
C16_GiveOutsidePhases ==
    [][\A t \in Threads :
         /\ \A j \in JudgeIds :
              (GiveTransition(t, j) /\ current_state \in {"NoState", "End"}) =>
                 /\ pc'[t] = "give_find"
                 /\ UNCHANGED <<current_state, matches, mq, items, judges>>
         /\ ( /\ pc[t] = "give_find"
              /\ pc'[t] # pc[t]
              /\ current_state \in {"NoState", "End"} ) =>
                 /\ pc'[t] = "idle"
                 /\ ret'[t] = RetErr("give",
                        IF current_state = "NoState"
                        THEN "Cannot get next match while in NONE state"
                        ELSE "Cannot get next match while in END state")
                 /\ UNCHANGED <<current_state, matches, mq, items, judges>>]_vars

\* C16 witness: give_judge_next_match has returned the NoState error with
\* items and a judge registered.
C16_Witness ==
    \E t \in Threads :
        /\ ret[t] = RetErr("give", "Cannot get next match while in NONE state")
        /\ current_state = "NoState"
        /\ DOMAIN items # {}
        /\ judges # <<>>

\* C17: once the state is Init with an empty match store and an empty
\* queue (a seed_start that produced no match), it stays so whatever is
\* called, and every give_judge_next_match that returns then returns the
\* empty-queue error.
C17_EmptySeedStaysEmpty ==
    [][(current_state = "Init" /\ DOMAIN matches = {} /\ DOMAIN mq = {}) =>
          /\ current_state' = "Init"
          /\ DOMAIN matches' = {}
          /\ DOMAIN mq' = {}
          /\ \A t \in Threads :
               (pc[t] \in GivePcs /\ pc'[t] = "idle") =>
                  ret'[t] = RetErr("give", "Could not peek queue")]_vars

\* The item store after the insert of record h into its.
Inserted(its, its2, h) ==
    /\ DOMAIN its2 = DOMAIN its \cup {h.id}
    /\ its2[h.id] = h
    /\ \A id \in DOMAIN its \ {h.id} : its2[id] = its[id]
    /\ \A id \in DOMAIN its2 : its2[id].id = id

\* C18: every step of add_items, in any phase, leaves the phase, the match
\* store, the queue and the judges as they were; the item store then holds
\* one record per id, for the inserted id the record just inserted and for
\* every other id the record it held.  (The argument of a call that
\* inserts is the record h it inserts followed by the records its first
\* step leaves pending.)
C18_AddItemsOnlyItems ==
    [][\A t \in Threads :
         /\ AddItems(t, <<>>) =>
                 /\ UNCHANGED <<current_state, matches, mq, judges, items>>
                 /\ pc'[t] = "idle"
         /\ ( /\ pc[t] = "idle"
              /\ ops' # ops
              /\ pc'[t] = "add_insert" \/ ret'[t] = RetUnit("add_items") ) =>
              \A h \in Items :
                 AddItems(t, <<h>> \o loc'[t].pend) =>
                    /\ UNCHANGED <<current_state, matches, mq, judges>>
                    /\ Inserted(items, items', h)
                    /\ loc'[t].pend = <<>> <=> pc'[t] = "idle"
         /\ AddInsert(t) =>
                 /\ UNCHANGED <<current_state, matches, mq, judges>>
                 /\ Inserted(items, items', Head(loc[t].pend))]_vars

\* C18 witness: add_items has returned after seeding, and the item store
\* holds an item that no stored match names beside a seeded one.
C18_Witness ==
    \E t \in Threads :
        /\ ret[t] = RetUnit("add_items")
        /\ current_state # "NoState"
        /\ DOMAIN mq # {}
        /\ \E a, b \in DOMAIN items :
             /\ items[a].name # items[b].name
             /\ \A id \in DOMAIN matches :
                  matches[id].i1 = a /\ matches[id].i2 = a

\* C19: what a caller was handed by give_judge_next_match does not change
\* while the caller keeps it, whatever the engine does afterwards.
C19_ResultsAreSnapshots ==
    [][\A t \in Threads :
         (ret[t].kind = "ok" /\ ret'[t] = ret[t]) => Seen(t)' = Seen(t)]_vars

\* C21: no thread requests a lock that comes earlier in the order state,
\* priority queue, match store, item store, judges than a lock it holds.
C21_LockOrderRespected ==
    \A t \in Threads :
        \A w \in WantedRanks(t), h \in HeldRanks(t) : w >= h

\* C22: a judge_match on a match whose two sides are one item never waits
\* for the item-store entry it holds itself (it returns).
C22_SelfMatchJudgmentReturns ==
    \A t \in Threads :
        ( /\ pc[t] = "judge_s2"
          /\ matches[loc[t].mid].i1 = matches[loc[t].mid].i2 ) =>
            shard_lock[shard_of[matches[loc[t].mid].i2]] # t

\* C23: whenever the state is Continuous, every match in the queue has
\* priority and visit_count at least 1.
C23_ContinuousAllServed ==
    current_state = "Continuous" =>
        \A id \in DOMAIN mq : mq[id] >= 1 /\ matches[id].visit_count >= 1

\* C24 (as claimed): whenever the state is Init, at least one match in the
\* queue has visit_count 0.
C24_InitHasUnvisited ==
    current_state = "Init" =>
        \E id \in DOMAIN mq : matches[id].visit_count = 0

\* C24 (amended): whenever the internal transition at the start of a
\* give_judge_next_match leaves the state at Init over a non-empty queue,
\* at least one match in the queue has visit_count 0 at that moment.
C24_InitKeptOnlyWithUnvisited ==
    [][\A t \in Threads :
         ( /\ pc[t] = "give_trans_mq"
           /\ pc'[t] = "give_find"
           /\ current_state' = "Init"
           /\ DOMAIN mq # {} ) =>
            \E id \in DOMAIN mq :
                mq[id] = 0 /\ matches[id].visit_count = 0]_vars

\* C24 witness: a give_judge_next_match has run its transition and found
\* the state Init kept, with one queued match served and another not.
C24_Witness ==
    \E t \in Threads :
        /\ pc[t] = "give_find"
        /\ current_state = "Init"
        /\ \E a, b \in DOMAIN mq :
             matches[a].visit_count = 1 /\ matches[b].visit_count = 0

\* C25: with a single caller and one successful seed_start, a
\* give_judge_next_match that returns while the queue still holds a match
\* of priority 0 returns a queued match that was never served before (so
\* the first M calls return M different seeded matches, each at
\* visit_count 1) and leaves the state at Init; the call that returns when
\* every queued match is at priority 1 (the M+1-th) returns a queued match
\* at visit_count 2 and has moved the state to Continuous.  The state
\* becomes Continuous only in the internal transition of a
\* give_judge_next_match that finds the queue minimum at 1 or more.
C25_SeedPhaseServesEachOnce ==
    [][/\ \A t \in Threads :
            ( /\ pc[t] \in GivePcs
              /\ pc'[t] = "idle"
              /\ seedTrue = 1
              /\ DOMAIN mq # {} ) =>
               /\ MinPrio(mq) = 0 =>
                     /\ ret'[t].kind = "ok"
                     /\ ret'[t].id \in DOMAIN mq
                     /\ matches[ret'[t].id].visit_count = 0
                     /\ matches'[ret'[t].id].visit_count = 1
                     /\ current_state = "Init"
                     /\ current_state' = "Init"
               /\ (\A id \in DOMAIN mq : mq[id] = 1) =>
                     /\ ret'[t].kind = "ok"
                     /\ ret'[t].id \in DOMAIN mq
                     /\ matches'[ret'[t].id].visit_count = 2
                     /\ current_state' = "Continuous"
       /\ (current_state # "Continuous" /\ current_state' = "Continuous") =>
            \E t \in Threads :
                /\ pc[t] = "give_trans_mq"
                /\ pc'[t] = "give_find"
                /\ current_state = "Init"
                /\ DOMAIN mq # {}
                /\ MinPrio(mq) >= 1]_vars

\* C25 witness: after a seed_start that produced two matches, the single
\* caller's third give_judge_next_match has returned a seeded match at
\* visit_count 2 in state Continuous, the other match being at 1.
C25_Witness ==
    /\ ret[1].kind = "ok"
    /\ current_state = "Continuous"
    /\ Cardinality(DOMAIN mq) = 2
    /\ matches[ret[1].id].visit_count = 2
    /\ \E id \in DOMAIN mq : matches[id].visit_count = 1

\* C26: in the Continuous phase, once every queued match has visit_count 2
\* or more, the queue never changes, every give_judge_next_match that
\* returns returns a match that is not in the queue, at visit_count 1, and
\* a synthesized match that was handed out stays at visit_count 1.
C26_ContinuousSynthesizesOnly ==
    [][( /\ current_state = "Continuous"
         /\ \A id \in DOMAIN mq : matches[id].visit_count >= 2 ) =>
          /\ mq' = mq
          /\ \A t \in Threads :
               (pc[t] \in GivePcs /\ pc'[t] = "idle") =>
                  /\ ret'[t].kind = "ok"
                  /\ ret'[t].id \notin DOMAIN mq
                  /\ matches'[ret'[t].id].visit_count = 1
          /\ \A id \in DOMAIN matches \ DOMAIN mq :
               matches[id].visit_count = 1 => matches'[id].visit_count = 1]_vars

\* C27: in each of the n rounds the seeder builds over k >= 1 items every
\* item is a side of at least one match of the round; for even k every item
\* is a side exactly once, for odd k exactly one item is a side twice and
\* every other item once.
C27_RoundsCoverItems ==
    ops = 1 =>
        \A r \in 1..loc[1].n :
            LET round == RoundOf(matches, loc[1].k, r)
                twice == {id \in DOMAIN items : SidesIn(round, id) = 2}
                once  == {id \in DOMAIN items : SidesIn(round, id) = 1}
            IN  /\ Len(matches) = loc[1].n * ((loc[1].k + 1) \div 2)
                /\ Cardinality(round) = (loc[1].k + 1) \div 2
                /\ \A id \in DOMAIN items : SidesIn(round, id) >= 1
                /\ IF loc[1].k % 2 = 0
                   THEN once = DOMAIN items
                   ELSE /\ Cardinality(twice) = 1
                        /\ once = DOMAIN items \ twice

\* C27 witness: the seeder has built two rounds over three items.
C27_Witness ==
    /\ ops = 1
    /\ loc[1].n = 2
    /\ Cardinality(DOMAIN items) = 3
    /\ Len(matches) = 4
    /\ \E i \in 1..4 : matches[i].i1 = matches[i].i2

====
